---------------------------- MODULE Spec2Model ----------------------------
(***************************************************************************)
(* A model of filefinder/_filefinder.py: FinderBase, Finder, FileFinder    *)
(* and FileContainer.                                                      *)
(*                                                                         *)
(* Strings are sequences of one-character strings.  Python values that     *)
(* can be handed to the finder are tagged records (Str, Num, List, Dict,   *)
(* None).                                                                  *)
(* A dict (keyword arguments, a positional mapping) is a sequence of       *)
(* [name, val] items with distinct names, in insertion order.              *)
(***************************************************************************)
EXTENDS Integers, Sequences, FiniteSets, TLC

VARIABLES
    ff,       \* the FileFinder under test: [path_pattern, file_pattern]
    fs,       \* the filesystem: the files (relative paths) on disk, in an
              \* order that gives every directory the order of its listing
    call,     \* the find_paths / find_files call being answered
    result,   \* what that call returned or raised
    handles,  \* the FileContainers the caller holds: name -> id of its .df
    dfs,      \* DataFrame objects: id -> [cols, rows]
    last,     \* the last FileContainer operation and what it returned
    nfinder,  \* the FinderBase a name is built with: [pattern]
    nkeys,    \* the field assignment handed to create_name
    nname,    \* what create_name returned or raised
    nparsed,  \* what the finder's parser recovered from that name
    npc       \* position of the name construction: "start", "named", "parsed"

vars == <<ff, fs, call, result, handles, dfs, last,
          nfinder, nkeys, nname, nparsed, npc>>

findVars  == <<ff, fs, call, result>>
tableVars == <<handles, dfs, last>>
nameVars  == <<nfinder, nkeys, nname, nparsed, npc>>

-----------------------------------------------------------------------------
(* Python values *)

Str(s)  == [t |-> "str",  s |-> s,    v |-> <<>>]
Num(s)  == [t |-> "int",  s |-> s,    v |-> <<>>]   \* s: the decimal digits
List(v) == [t |-> "list", s |-> <<>>, v |-> v]
None    == [t |-> "None", s |-> <<>>, v |-> <<>>]
Dict(d) == [t |-> "dict", s |-> <<>>, v |-> d]      \* d: the items

\* sep.join(strings)
RECURSIVE Join(_, _)
Join(sep, strings) ==
    IF strings = <<>> THEN <<>>
    ELSE IF Len(strings) = 1 THEN Head(strings)
    ELSE Head(strings) \o sep \o Join(sep, Tail(strings))

\* repr of a str of printable characters: in single quotes, or in double
\* quotes when it holds a single quote and no double quote; backslashes
\* and the enclosing quote are escaped
ReprStr(s) ==
    LET chars == {s[i] : i \in 1..Len(s)}
        quote == IF "'" \in chars /\ "\"" \notin chars THEN "\"" ELSE "'"
        Esc(c) == IF c = "\\" \/ c = quote THEN <<"\\", c>> ELSE <<c>>
    IN  <<quote>> \o Join(<<>>, [i \in 1..Len(s) |-> Esc(s[i])]) \o <<quote>>

\* repr(value); the key of a dict item is a str, written as one element
RECURSIVE PyRepr(_)
PyRepr(val) ==
    CASE val.t = "str"  -> ReprStr(val.s)
      [] val.t = "int"  -> val.s
      [] val.t = "None" -> <<"N", "o", "n", "e">>
      [] val.t = "list" ->
            <<"[">> \o Join(<<",", " ">>, [i \in 1..Len(val.v) |-> PyRepr(val.v[i])])
                   \o <<"]">>
      [] val.t = "dict" ->
            <<"{">> \o Join(<<",", " ">>,
                            [i \in 1..Len(val.v) |->
                                ReprStr(<<val.v[i].name>>) \o <<":", " ">>
                                    \o PyRepr(val.v[i].val)])
                   \o <<"}">>

\* str(value), as str.format inserts it for a plain {name} field: a str
\* as it is, any other value by its repr
PyStr(val) == IF val.t = "str" THEN val.s ELSE PyRepr(val)

Item(n, val) == [name |-> n, val |-> val]

DictKeys(d) == {d[i].name : i \in 1..Len(d)}

DictGet(d, n) == d[CHOOSE i \in 1..Len(d) : d[i].name = n].val

\* d[n] = val: an existing key keeps its position, a new one is appended
DictSet(d, n, val) ==
    IF n \in DictKeys(d)
    THEN [i \in 1..Len(d) |-> IF d[i].name = n THEN Item(n, val) ELSE d[i]]
    ELSE Append(d, Item(n, val))

RECURSIVE DictUpdate(_, _)
DictUpdate(d, e) ==
    IF e = <<>> THEN d
    ELSE DictUpdate(DictSet(d, Head(e).name, Head(e).val), Tail(e))

-----------------------------------------------------------------------------
(* Characters and strings *)

Digits == {"0", "1", "2", "3", "4", "5", "6", "7", "8", "9"}

DigitVal(c) ==
    CASE c = "0" -> 0 [] c = "1" -> 1 [] c = "2" -> 2 [] c = "3" -> 3
      [] c = "4" -> 4 [] c = "5" -> 5 [] c = "6" -> 6 [] c = "7" -> 7
      [] c = "8" -> 8 [] c = "9" -> 9

\* code points of the characters the model's strings are made of
Ord(c) ==
    CASE c = "*" -> 42 [] c = "." -> 46 [] c = "/" -> 47
      [] c \in Digits -> 48 + DigitVal(c)
      [] c = "X" -> 88 [] c = "Y" -> 89 [] c = "_" -> 95
      [] c = "x" -> 120 [] c = "y" -> 121

\* str.lower() of one character
Lower(c) == CASE c = "X" -> "x" [] c = "Y" -> "y" [] OTHER -> c

Drop(s, n) == SubSeq(s, n + 1, Len(s))
Take(s, n) == SubSeq(s, 1, n)

Min(S) == CHOOSE n \in S : \A m \in S : n <= m

\* all strings over the characters C of length lo..hi
StringsOver(C, lo, hi) == UNION {[1..n -> C] : n \in lo..hi}

-----------------------------------------------------------------------------
(* Templates: a pattern is a sequence of literal characters and {name}     *)
(* fields.                                                                 *)

Lit(c) == [k |-> "lit", c |-> c]
Fld(n) == [k |-> "fld", c |-> n]

FA == Fld("a")
FB == Fld("b")

\* utils._find_keys: the set of field names of a pattern
FindKeys(pattern) == {pattern[i].c : i \in {j \in 1..Len(pattern) : pattern[j].k = "fld"}}

\* the field names in order of appearance (the order of parse's named dict)
RECURSIVE FieldOrder(_)
FieldOrder(pattern) ==
    IF pattern = <<>> THEN <<>>
    ELSE IF Head(pattern).k = "fld"
         THEN <<Head(pattern).c>> \o FieldOrder(Tail(pattern))
         ELSE FieldOrder(Tail(pattern))

\* utils.update_keys_dict_with_kwargs(keys, **keys_kwargs)
UpdateKeysDictWithKwargs(keys, keys_kwargs) ==
    DictUpdate(IF keys = None THEN <<>> ELSE keys.v, keys_kwargs)

\* str.format(**keys): every field replaced by str(keys[name]); a field
\* without a value raises KeyError; keys that name no field are ignored
RECURSIVE StrFormat(_, _)
StrFormat(pattern, keys) ==
    IF pattern = <<>> THEN [err |-> "", s |-> <<>>]
    ELSE LET tok  == Head(pattern)
             rest == StrFormat(Tail(pattern), keys)
         IN  IF tok.k = "fld" /\ tok.c \notin DictKeys(keys)
             THEN [err |-> "KeyError", s |-> <<>>]
             ELSE IF rest.err # "" THEN rest
             ELSE [err |-> "",
                   s |-> (IF tok.k = "lit" THEN <<tok.c>>
                          ELSE PyStr(DictGet(keys, tok.c))) \o rest.s]

\* FinderBase.__init__
FinderBase(pattern, suffix) ==
    [pattern |-> pattern, keys |-> FindKeys(pattern), suffix |-> suffix]

\* FinderBase.create_name(keys, **keys_kwargs)
CreateName(self, keys, keys_kwargs) ==
    StrFormat(self.pattern, UpdateKeysDictWithKwargs(keys, keys_kwargs))

NoParse == [ok |-> FALSE, named |-> <<>>]

\* ParserParse without the anchor at the end of the string (the parser's
\* search in place of its parse): text after the last token is accepted
RECURSIVE ParserParseUnanchored(_, _)
ParserParseUnanchored(pattern, string) ==
    IF pattern = <<>> THEN [ok |-> TRUE, named |-> <<>>]
    ELSE LET tok == Head(pattern) IN
         IF tok.k = "lit"
         THEN IF string # <<>> /\ Lower(Head(string)) = Lower(tok.c)
              THEN ParserParseUnanchored(Tail(pattern), Tail(string))
              ELSE NoParse
         ELSE LET fits == {n \in 1..Len(string) :
                              ParserParseUnanchored(Tail(pattern), Drop(string, n)).ok}
              IN  IF fits = {} THEN NoParse
                  ELSE LET n    == Min(fits)
                           rest == ParserParseUnanchored(Tail(pattern), Drop(string, n))
                       IN  [ok |-> TRUE,
                            named |-> <<Item(tok.c, Str(Take(string, n)))>>
                                      \o rest.named]

\* parse.compile(pattern).parse(string): the pattern as an anchored regular
\* expression, every plain {name} field the lazy group (?P<name>.+?), every
\* literal matched ignoring case; the result is None (NoParse) when the
\* string does not fit.  A lazy group takes the shortest non-empty prefix
\* after which the rest of the pattern still matches.
RECURSIVE ParserParse(_, _)
ParserParse(pattern, string) ==
    IF pattern = <<>> THEN [ok |-> string = <<>>, named |-> <<>>]
    ELSE LET tok == Head(pattern) IN
         IF tok.k = "lit"
         THEN IF string # <<>> /\ Lower(Head(string)) = Lower(tok.c)
              THEN ParserParse(Tail(pattern), Tail(string))
              ELSE NoParse
         ELSE LET fits == {n \in 1..Len(string) :
                              ParserParse(Tail(pattern), Drop(string, n)).ok}
              IN  IF fits = {} THEN NoParse
                  ELSE LET n    == Min(fits)
                           rest == ParserParse(Tail(pattern), Drop(string, n))
                       IN  [ok |-> TRUE,
                            named |-> <<Item(tok.c, Str(Take(string, n)))>>
                                      \o rest.named]

-----------------------------------------------------------------------------
(* The filesystem scan: glob.glob on a tree of relative paths.             *)

\* the "/"-separated components of a path; a trailing "/" gives a last,
\* empty component
RECURSIVE SplitSlash(_)
SplitSlash(s) ==
    IF \A i \in 1..Len(s) : s[i] # "/" THEN <<s>>
    ELSE LET i == Min({j \in 1..Len(s) : s[j] = "/"})
         IN  <<Take(s, i - 1)>> \o SplitSlash(Drop(s, i))

\* fnmatch of one path component: "*" matches any run of characters
RECURSIVE FnMatch(_, _)
FnMatch(pat, name) ==
    IF pat = <<>> THEN name = <<>>
    ELSE IF Head(pat) = "*"
         THEN \E n \in 0..Len(name) : FnMatch(Tail(pat), Drop(name, n))
         ELSE /\ name # <<>>
              /\ Head(name) = Head(pat)
              /\ FnMatch(Tail(pat), Tail(name))

HasMagic(pat) == \E i \in 1..Len(pat) : pat[i] = "*"

IsHidden(name) == name # <<>> /\ Head(name) = "."

\* one component of a glob pattern against one directory entry: a pattern
\* with a wildcard that does not itself start with "." skips hidden names;
\* only the empty component after a trailing "/" matches an empty one
ComponentMatch(pat, name) ==
    /\ (pat = <<>>) <=> (name = <<>>)
    /\ FnMatch(pat, name)
    /\ (HasMagic(pat) /\ ~IsHidden(pat)) => ~IsHidden(name)

\* the directories of a tree of files: every prefix that ends before a "/"
DirsOf(files) ==
    UNION {{Take(f, i - 1) : i \in {j \in 1..Len(f) : f[j] = "/"}} : f \in files}

\* what a glob can return: files and directories by name, and directories
\* with a trailing "/" (for a pattern that ends with "/")
Entries(files) ==
    files \cup {d \in DirsOf(files) : d # <<>>}
          \cup {d \o <<"/">> : d \in {e \in DirsOf(files) : e # <<>>}}

Range(seq) == {seq[i] : i \in 1..Len(seq)}

\* the first n components of a path, joined again
RECURSIVE JoinPath(_, _)
JoinPath(comps, n) ==
    IF n = 0 THEN <<>>
    ELSE IF n = 1 THEN comps[1]
    ELSE JoinPath(comps, n - 1) \o <<"/">> \o comps[n]

\* is the path `prefix` the file f or a directory above it
IsAtOrAbove(prefix, f) ==
    /\ Len(prefix) <= Len(f)
    /\ Take(f, Len(prefix)) = prefix
    /\ Len(prefix) < Len(f) => f[Len(prefix) + 1] = "/"

\* os.scandir order: an entry of a directory comes where the first file at
\* or below it comes in `files`
ListingRank(files, entry) ==
    Min({i \in 1..Len(files) : IsAtOrAbove(entry, files[i])} \cup {Len(files) + 1})

\* glob.glob walks the tree directory by directory, each in the order of
\* its listing: of two matches the one whose component is listed first,
\* where the two paths part, is returned first
ListedBefore(files, p, q) ==
    LET pc == SplitSlash(p)
        qc == SplitSlash(q)
        ks == {k \in 1..Min({Len(pc), Len(qc)}) : pc[k] # qc[k]}
    IN  IF ks = {} THEN Len(pc) < Len(qc)
        ELSE LET k == Min(ks)
             IN  ListingRank(files, JoinPath(pc, k)) < ListingRank(files, JoinPath(qc, k))

\* the paths of a set in the order the walk returns them
RECURSIVE InListingOrder(_, _)
InListingOrder(files, paths) ==
    IF paths = {} THEN <<>>
    ELSE LET first == CHOOSE p \in paths :
                         \A q \in paths \ {p} : ListedBefore(files, p, q)
         IN  <<first>> \o InListingOrder(files, paths \ {first})

\* Finder._glob(pattern) = glob.glob(pattern): the existing paths that
\* match the pattern component by component, in the order of the walk
Glob(files, pattern) ==
    LET pc == SplitSlash(pattern)
    IN  InListingOrder(files,
          {e \in Entries(Range(files)) :
              LET ec == SplitSlash(e)
              IN  /\ Len(ec) = Len(pc)
                  /\ \A i \in 1..Len(pc) : ComponentMatch(pc[i], ec[i])})

-----------------------------------------------------------------------------
(* utils.natural_keys and sorted(paths, key=natural_keys)                  *)

IsDigit(c) == c \in Digits

\* length of the longest prefix of s whose characters all satisfy / all
\* fail IsDigit
RunLen(s, digit) ==
    LET stops == {i \in 1..Len(s) : IsDigit(s[i]) # digit}
    IN  IF stops = {} THEN Len(s) ELSE Min(stops) - 1

\* atoi: the number a run of digits denotes
RECURSIVE AtoI(_)
AtoI(s) == IF s = <<>> THEN 0 ELSE 10 * AtoI(Take(s, Len(s) - 1)) + DigitVal(s[Len(s)])

\* re.split(r"(\d+)", text): text, digits, text, ..., text, the digit runs
\* turned into numbers; the text runs may be empty
RECURSIVE NaturalKeys(_)
NaturalKeys(s) ==
    LET n == RunLen(s, FALSE)
        r == Drop(s, n)
        m == RunLen(r, TRUE)
    IN  IF r = <<>> THEN <<[num |-> FALSE, s |-> Take(s, n), n |-> 0]>>
        ELSE <<[num |-> FALSE, s |-> Take(s, n), n |-> 0],
               [num |-> TRUE, s |-> <<>>, n |-> AtoI(Take(r, m))]>>
             \o NaturalKeys(Drop(r, m))

\* str < str
RECURSIVE StrLess(_, _)
StrLess(a, b) ==
    IF b = <<>> THEN FALSE
    ELSE IF a = <<>> THEN TRUE
    ELSE IF Head(a) # Head(b) THEN Ord(Head(a)) < Ord(Head(b))
    ELSE StrLess(Tail(a), Tail(b))

\* list < list for two natural keys
RECURSIVE KeyLess(_, _)
KeyLess(a, b) ==
    IF b = <<>> THEN FALSE
    ELSE IF a = <<>> THEN TRUE
    ELSE IF Head(a) = Head(b) THEN KeyLess(Tail(a), Tail(b))
    ELSE IF Head(a).num THEN Head(a).n < Head(b).n
    ELSE StrLess(Head(a).s, Head(b).s)

\* sorted(paths, key=natural_keys): the sort is stable, paths with equal
\* keys keep the order they came in
RECURSIVE SortedNatural(_)
SortedNatural(paths) ==
    IF paths = <<>> THEN <<>>
    ELSE LET i == Min({j \in 1..Len(paths) :
                         \A k \in 1..Len(paths) :
                            ~KeyLess(NaturalKeys(paths[k]), NaturalKeys(paths[j]))})
         IN  <<paths[i]>>
             \o SortedNatural([k \in 1..(Len(paths) - 1) |->
                                  IF k < i THEN paths[k] ELSE paths[k + 1]])

-----------------------------------------------------------------------------
(* Finder and FileFinder                                                   *)

\* os.path.join(a, b) of two patterns
OsPathJoin(a, b) ==
    IF b # <<>> /\ Head(b) = Lit("/") THEN b
    ELSE IF a = <<>> \/ a[Len(a)] = Lit("/") THEN a \o b
    ELSE a \o <<Lit("/")>> \o b

\* FileFinder.__init__: the three finders of a FileFinder
FileFinderFile(self) == FinderBase(self.file_pattern, <<>>)

\* the path finder built without its suffix
FileFinderPathNoSuffix(self) == FinderBase(OsPathJoin(self.path_pattern, <<>>), <<>>)

FileFinderPath(self) == FinderBase(OsPathJoin(self.path_pattern, <<>>), <<"*">>)

\* filter(None, parts): the non-empty parts
FilterNone(parts) == SelectSeq(parts, LAMBDA part : part # <<>>)

\* os.path.join(*parts): without any part the call raises TypeError
RECURSIVE OsPathJoinAll(_)
OsPathJoinAll(parts) ==
    IF parts = <<>> THEN [err |-> "TypeError", pattern |-> <<>>]
    ELSE IF Len(parts) = 1 THEN [err |-> "", pattern |-> parts[1]]
    ELSE OsPathJoinAll(<<OsPathJoin(parts[1], parts[2])>> \o Tail(Tail(parts)))

\* self.full; with both patterns empty os.path.join() raises and there is
\* no finder
FileFinderFull(self) ==
    LET joined == OsPathJoinAll(FilterNone(<<self.path_pattern, self.file_pattern>>))
    IN  IF joined.err # "" THEN [err |-> joined.err]
        ELSE FinderBase(joined.pattern, <<>>)

\* FileFinder(path_pattern, file_pattern): the FileFinder, or the error
\* the construction raised, in which case there is no FileFinder
FileFinderInit(path_pattern, file_pattern) ==
    LET self == [path_pattern |-> path_pattern, file_pattern |-> file_pattern]
        full == FileFinderFull(self)
    IN  [path_pattern |-> path_pattern, file_pattern |-> file_pattern,
         err |-> IF "err" \in DOMAIN full THEN full.err ELSE ""]

\* Finder._create_condition_dict(**kwargs): "*" for every key of the
\* pattern, then the given keys laid over it
CreateConditionDict(self, kwargs) ==
    LET order == FieldOrder(self.pattern)
    IN  DictUpdate([i \in 1..Len(order) |-> Item(order[i], Str(<<"*">>))], kwargs)

\* utils.product_dict(**kwargs): one dict per element of the cartesian
\* product of the values, the last key varying fastest
RECURSIVE ProductDict(_)
ProductDict(kwargs) ==
    IF kwargs = <<>> THEN << <<>> >>
    ELSE LET h    == Head(kwargs)
             rest == ProductDict(Tail(kwargs))
             n    == Len(rest)
         IN  [i \in 1..(Len(h.val.v) * n) |->
                 <<Item(h.name, h.val.v[((i - 1) \div n) + 1])>>
                 \o rest[((i - 1) % n) + 1]]

\* Finder._parse_paths(paths): None for no path, else the DataFrame of one
\* row per path: the path plus the suffix, then the parsed fields
ParsePaths(self, paths) ==
    IF paths = <<>> THEN [kind |-> "None", err |-> "", cols |-> <<>>, rows |-> <<>>]
    ELSE IF \E i \in 1..Len(paths) : ~ParserParse(self.pattern, paths[i]).ok
    THEN [kind |-> "error", err |-> "AttributeError", cols |-> <<>>, rows |-> <<>>]
    ELSE [kind |-> "DataFrame", err |-> "",
          cols |-> <<"filename">> \o FieldOrder(self.pattern),
          rows |-> [i \in 1..Len(paths) |->
                      LET named == ParserParse(self.pattern, paths[i]).named
                      IN  <<Str(paths[i] \o self.suffix)>>
                          \o [j \in 1..Len(named) |-> named[j].val]]]

-----------------------------------------------------------------------------
(* FileContainer.combine_by_key and Finder.find                            *)

\* the positions of the columns `keys` in the columns `cols`
ColumnIndex(cols, key) == CHOOSE i \in 1..Len(cols) : cols[i] = key

\* combine_by_key reading only the first key
\* column
CombineByKeyFirstOnly(df, keys, sep) ==
    [r \in 1..Len(df.rows) |->
        IF Len(df.cols) > 1 THEN PyStr(df.rows[r][2]) ELSE <<>>]

\* FileContainer.combine_by_key(keys, sep): per row, the str of the named
\* columns joined by sep; keys is a list of column names, or None for every
\* column except filename
CombineByKey(df, keys, sep) ==
    LET names == IF keys = None
                 THEN SelectSeq(df.cols, LAMBDA c : c # "filename")
                 ELSE keys.v
    IN  [r \in 1..Len(df.rows) |->
            Join(sep, [k \in 1..Len(names) |->
                          PyStr(df.rows[r][ColumnIndex(df.cols, names[k])])])]

\* Series.unique(): the distinct values
Unique(series) == {series[i] : i \in 1..Len(series)}

\* lines 51-54: a str value is wrapped in a one-element list
WrapStrings(keys) ==
    [i \in 1..Len(keys) |->
        IF keys[i].val.t = "str"
        THEN Item(keys[i].name, List(<<keys[i].val>>))
        ELSE keys[i]]

\* lines 56-71: one scan per element of the product; the DataFrames of the
\* scans that found something, the patterns tried, the patterns scanned
RECURSIVE FindLoop(_, _, _, _)
FindLoop(self, files, searches, acc) ==
    IF searches = <<>> THEN acc
    ELSE LET cond_dict    == CreateConditionDict(self, Head(searches))
             full_pattern == CreateName(self, None, cond_dict)
             paths        == SortedNatural(Glob(files, full_pattern.s))
             df           == ParsePaths(self, paths)
         IN  IF full_pattern.err # ""
             THEN [acc EXCEPT !.err = full_pattern.err]
             ELSE IF df.kind = "error"
             THEN [acc EXCEPT !.err = df.err,
                              !.scanned = Append(@, full_pattern.s)]
             ELSE FindLoop(self, files, Tail(searches),
                    [err          |-> "",
                     list_of_df   |-> IF df.kind = "None" THEN acc.list_of_df
                                      ELSE Append(acc.list_of_df, df),
                     all_patterns |-> Append(acc.all_patterns, full_pattern.s),
                     scanned      |-> Append(acc.scanned, full_pattern.s)])

\* pd.concat(list_of_df).reset_index(drop=True)
RECURSIVE Concat(_)
Concat(list_of_df) ==
    IF Len(list_of_df) = 1 THEN Head(list_of_df)
    ELSE [Head(list_of_df) EXCEPT
             !.rows = @ \o Concat(Tail(list_of_df)).rows]

\* what a call returns or raises.  `assembled` records the rows of the
\* table that went into the uniqueness check, if the call got that far.
Outcome(kind, err, df, acc, assembled) ==
    [kind |-> kind, err |-> err, cols |-> df.cols, rows |-> df.rows,
     patterns |-> acc.all_patterns, scanned |-> acc.scanned,
     assembled |-> assembled]

NoTable == [cols |-> <<>>, rows |-> <<>>]

Raised(err, acc) == Outcome("error", err, NoTable, acc, <<>>)

\* lines 83-92: the uniqueness check on the assembled table
CheckUnique(df, acc) ==
    LET len_all    == Len(df.rows)
        len_unique == Cardinality(Unique(CombineByKey(df, None, <<".">>)))
    IN  IF len_all # len_unique
        THEN Outcome("error", "ValueError: non-unique metadata", NoTable, acc, df.rows)
        ELSE Outcome("FileContainer", "", df, acc, df.rows)

\* lines 73-81: what find does when there is or is not a DataFrame
Assemble(acc, allow_empty) ==
    IF acc.list_of_df # <<>> THEN CheckUnique(Concat(acc.list_of_df), acc)
    ELSE IF allow_empty
    THEN Outcome("list", "", NoTable, acc, <<>>)
    ELSE Raised("ValueError: no files", acc)

\* line 49: the dict the search is made from
FindKeysDict(keys, keys_kwargs) == UpdateKeysDictWithKwargs(None, keys_kwargs)

\* Finder.find(keys, _allow_empty=allow_empty, **keys_kwargs)
Find(self, files, keys, allow_empty, keys_kwargs) ==
    LET wrapped == WrapStrings(FindKeysDict(keys, keys_kwargs))
        start   == [err |-> "", list_of_df |-> <<>>,
                    all_patterns |-> <<>>, scanned |-> <<>>]
    IN  IF \E i \in 1..Len(wrapped) : wrapped[i].val.t # "list"
        THEN Raised("TypeError", start)   \* product of a value that is no list
        ELSE LET acc == FindLoop(self, files, ProductDict(wrapped), start)
             IN  IF acc.err # "" THEN Raised(acc.err, acc)
                 ELSE Assemble(acc, allow_empty)

-----------------------------------------------------------------------------
(* The parts of the state an operation does not touch                      *)

TableIdle == /\ handles = [source |-> 0, returned |-> 0]
             /\ dfs = <<>>
             /\ last = [op |-> "none"]

FindIdle == /\ ff = FileFinderInit(<<>>, <<>>)
            /\ fs = <<>>
            /\ call = [op |-> "none"]
            /\ result = [kind |-> "none"]

NameIdle == /\ nfinder = FinderBase(<<>>, <<>>)
            /\ nkeys = <<>>
            /\ nname = [err |-> "", s |-> <<>>]
            /\ nparsed = NoParse
            /\ npc = "start"

-----------------------------------------------------------------------------
(* Searches of a FileFinder on a filesystem                                *)

MaxFiles == 2
MaxQuery == 2

S(c)       == <<c>>
P3(a, b, c) == <<a, b, c>>

FileFinders ==
    { FileFinderInit(<<FA>>, <<FB>>),
      FileFinderInit(<<FA, Lit("/")>>, <<FB, Lit("x")>>),
      FileFinderInit(<<>>, <<FA, Lit("/"), FB>>),
      FileFinderInit(<<>>, <<>>) }

Universe ==
    { P3("1", "/", "x"), <<"0", "1", "/", "x">>,
      <<"x", ".", "y", "/", "x">>, <<"x", "/", "y", ".", "x">> }

\* the sequences of at most max distinct files
Listings(files, max) ==
    UNION {{seq \in [1..n -> files] : \A i, j \in 1..n : i # j => seq[i] # seq[j]} :
           n \in 0..max}

QueryNames == <<"a", "b", "c">>

QueryValues ==
    { Str(S("x")), Num(S("1")),
      List(<<>>), List(<<Str(S("x"))>>), List(<<Str(S("x")), Str(S("1"))>>),
      List(<<Num(S("1"))>>) }

\* the dicts of at most max items over the names, the names in order
DictsOver(names, values, max) ==
    UNION {{[i \in 1..Cardinality(N) |->
               Item(names[CHOOSE k \in N : Cardinality({m \in N : m < k}) = i - 1],
                    f[CHOOSE k \in N : Cardinality({m \in N : m < k}) = i - 1])] :
               f \in [N -> values]} :
           N \in {M \in SUBSET (1..Len(names)) : Cardinality(M) <= max}}

Queries == DictsOver(QueryNames, QueryValues, MaxQuery)

InitFind ==
    /\ ff \in FileFinders
    /\ fs \in Listings(Universe, MaxFiles)
    /\ call = [op |-> "none"]
    /\ result = [kind |-> "none"]
    /\ TableIdle
    /\ NameIdle

\* the two ways a caller hands a query over: as keywords, or as the
\* positional mapping `keys`
CallForms(q) ==
    {[keys |-> None, kwargs |-> q], [keys |-> Dict(q), kwargs |-> <<>>]}

\* FileFinder.find_paths(keys, _allow_empty=allow_empty, **keys_kwargs)
FindPaths ==
    \E q \in Queries, allow_empty \in BOOLEAN :
      \E form \in CallForms(q) :
        /\ ff.err = ""
        /\ call.op = "none"
        /\ call' = [op |-> "find_paths", keys |-> form.keys,
                    allow_empty |-> allow_empty, kwargs |-> form.kwargs]
        /\ result' = Find(FileFinderPath(ff), fs, form.keys, allow_empty, form.kwargs)
        /\ UNCHANGED <<ff, fs>>
        /\ UNCHANGED tableVars
        /\ UNCHANGED nameVars

\* FileFinder.find_files(keys, _allow_empty=allow_empty, **keys_kwargs)
FindFiles ==
    \E q \in Queries, allow_empty \in BOOLEAN :
      \E form \in CallForms(q) :
        /\ ff.err = ""
        /\ call.op = "none"
        /\ call' = [op |-> "find_files", keys |-> form.keys,
                    allow_empty |-> allow_empty, kwargs |-> form.kwargs]
        /\ result' = Find(FileFinderFull(ff), fs, form.keys, allow_empty, form.kwargs)
        /\ UNCHANGED <<ff, fs>>
        /\ UNCHANGED tableVars
        /\ UNCHANGED nameVars

\* the caller is done with the result; the finder is ready for the next
\* call (a search keeps nothing from one call to the next)
Return ==
    /\ call.op # "none"
    /\ call' = [op |-> "none"]
    /\ result' = [kind |-> "none"]
    /\ UNCHANGED <<ff, fs>>
    /\ UNCHANGED tableVars
    /\ UNCHANGED nameVars

NextFind == FindPaths \/ FindFiles \/ Return

Spec == InitFind /\ [][NextFind]_vars

-----------------------------------------------------------------------------
(* Properties of the searches                                              *)

\* the finder the call in progress goes to
CalledFinder ==
    IF call.op = "find_paths" THEN FileFinderPath(ff) ELSE FileFinderFull(ff)

\* what the caller observes of an outcome
Observed(r) == [kind |-> r.kind, err |-> r.err, cols |-> r.cols, rows |-> r.rows]

EndsWith(s, tail) ==
    Len(s) >= Len(tail) /\ SubSeq(s, Len(s) - Len(tail) + 1, Len(s)) = tail

\* every value of the query is a str or a list
WellTyped(q) == \A i \in 1..Len(q) : q[i].val.t \in {"str", "list"}

\* C1: when the scan returns no path for any of the attempted patterns, the
\* call fails with the no-match error unless empty results are allowed, and
\* then it returns a table (a FileContainer) of zero rows.
C1_EmptyMatchPolicy ==
    ( /\ call.op # "none"
      /\ call.keys = None
      /\ WellTyped(call.kwargs)
      /\ \A i \in 1..Len(result.scanned) : Glob(fs, result.scanned[i]) = <<>> )
    => IF call.allow_empty
       THEN result.kind = "FileContainer" /\ result.rows = <<>>
       ELSE result.kind = "error" /\ result.err = "ValueError: no files"

\* the joined key of a row: its key columns (all but filename), as str,
\* with "." between them
JoinedKey(row) == Join(<<".">>, [k \in 1..(Len(row) - 1) |-> PyStr(row[k + 1])])

\* C2: an assembled table with two rows of the same joined key makes the
\* call fail with the non-unique-metadata error; with all joined keys
\* distinct the call returns the table; so no returned table has two rows
\* with the same combination of key-column values.
C2_UniquenessValidated ==
    LET rows  == result.assembled
        clash == \E i, j \in 1..Len(rows) :
                    i # j /\ JoinedKey(rows[i]) = JoinedKey(rows[j])
    IN  /\ (call.op # "none" /\ rows # <<>>) =>
              IF clash
              THEN result.kind = "error"
                   /\ result.err = "ValueError: non-unique metadata"
              ELSE result.kind = "FileContainer" /\ result.rows = rows
        /\ (call.op # "none" /\ result.kind = "FileContainer") =>
              \A i, j \in 1..Len(result.rows) :
                  i # j => Tail(result.rows[i]) # Tail(result.rows[j])

\* a search that was refused for two rows with distinct key values whose
\* joined keys coincide, or for a row found twice
C2_Witness ==
    /\ call.op = "find_files"
    /\ result.err = "ValueError: non-unique metadata"
    /\ Len(result.assembled) = 2
    /\ result.assembled[1] # result.assembled[2]
    /\ JoinedKey(result.assembled[1]) = JoinedKey(result.assembled[2])

\* the query with every one-element list replaced by its element
Scalars(q) ==
    [i \in 1..Len(q) |->
        IF q[i].val.t = "list" /\ Len(q[i].val.v) = 1
        THEN Item(q[i].name, q[i].val.v[1])
        ELSE q[i]]

\* C5: a query whose list-valued fields each hold one candidate gives the
\* same outcome as the query with those fields given as bare scalars.
C5_ScalarSingletonEquivalent ==
    ( /\ call.op # "none"
      /\ call.keys = None
      /\ \A i \in 1..Len(call.kwargs) :
            call.kwargs[i].val.t = "list" /\ Len(call.kwargs[i].val.v) = 1 )
    => Observed(result)
       = Observed(Find(CalledFinder, fs, None, call.allow_empty,
                       Scalars(call.kwargs)))

\* C8: a query that names a field the template does not have fails with an
\* error reporting the field, and no scan is run.
C8_UnknownFieldRejected ==
    ( /\ call.op # "none"
      /\ call.keys = None
      /\ WellTyped(call.kwargs)
      /\ ~(DictKeys(call.kwargs) \subseteq CalledFinder.keys) )
    => /\ result.kind = "error"
       /\ result.err = "ValueError: unknown key"
       /\ result.scanned = <<>>

\* C9 (as claimed): the directory template ends with a separator and every
\* pattern the directory finder scans ends with the separator followed by
\* the wildcard suffix.
C9_ScannedPatternsCarrySuffix ==
    call.op = "find_paths" =>
        /\ EndsWith(FileFinderPath(ff).pattern, <<Lit("/")>>)
        /\ \A i \in 1..Len(result.scanned) :
              EndsWith(result.scanned[i], <<"/", "*">>)

\* C9 (amended): a non-empty directory template ends with exactly one more
\* separator than given, or as given when it already ends with one; every
\* pattern the directory finder scans is the formatted template, ending
\* with the separator and not with the wildcard suffix; the suffix is
\* appended to every matched directory in the filename column of the rows.
C9_SuffixOnFilenames ==
    call.op = "find_paths" =>
        LET pattern == FileFinderPath(ff).pattern IN
        /\ ff.path_pattern # <<>> =>
              /\ EndsWith(pattern, <<Lit("/")>>)
              /\ pattern \in {ff.path_pattern, ff.path_pattern \o <<Lit("/")>>}
              /\ ~EndsWith(pattern, <<Lit("/"), Lit("/")>>)
        /\ \A i \in 1..Len(result.scanned) :
              /\ ff.path_pattern # <<>> => EndsWith(result.scanned[i], <<"/">>)
              /\ ~EndsWith(result.scanned[i], <<"*">>)
        /\ \A r \in 1..Len(result.rows) :
              LET filename == result.rows[r][1].s IN
              /\ EndsWith(filename, <<"/", "*">>)
              /\ Take(filename, Len(filename) - 1) \in Entries(Range(fs))
              /\ \E i \in 1..Len(result.scanned) :
                    Take(filename, Len(filename) - 1) \in Range(Glob(fs, result.scanned[i]))

\* a directory search that returned two directories
C9_Witness ==
    /\ call.op = "find_paths"
    /\ result.kind = "FileContainer"
    /\ Len(result.rows) = 2
    /\ Len(result.scanned) = 2
    /\ result.rows[1][1] = Str(<<"x", "/", "*">>)

\* C10: a query handed over as the positional mapping gives the same
\* outcome as the same query handed over as keywords.
C10_MappingKeywordEquivalent ==
    (call.op # "none" /\ call.keys # None)
    => Observed(result)
       = Observed(Find(CalledFinder, fs, None, call.allow_empty, call.keys.v))

-----------------------------------------------------------------------------
(* FileContainer.  The caller holds two containers: the source, and the    *)
(* one the last search or slice returned (binding a new one to the same    *)
(* name drops the old one).  A container refers to a DataFrame object; no  *)
(* operation of FileContainer writes into a DataFrame, so a DataFrame      *)
(* object keeps the rows it was made with.                                 *)

MaxRows == 2

\* ids of DataFrame objects: one per container, and one being made
DfIds == {1, 2, 3}

NullDf == [cols |-> <<>>, rows |-> <<"freed">>]

Held == {c \in {"source", "returned"} : handles[c] # 0}

DfOf(c)   == dfs[handles[c]]
RowsOf(c) == DfOf(c).rows
ColsOf(c) == DfOf(c).cols

\* a new DataFrame object
FreshId == Min(DfIds \ {handles[c] : c \in Held})

\* the DataFrame objects no container refers to any more are gone
Collect(h, d) ==
    [i \in DfIds |-> IF i \in {h.source, h.returned} THEN d[i] ELSE NullDf]

\* df[key] == val, row by row
ColumnEquals(df, key, val) ==
    [r \in 1..Len(df.rows) |-> df.rows[r][ColumnIndex(df.cols, key)] = val]

\* df[key] raises KeyError for a key that is no column
HasColumn(df, key) == \E i \in 1..Len(df.cols) : df.cols[i] = key

\* lines 216-218: the rows whose column equals any element of the list
RECURSIVE ListCondition(_, _, _, _)
ListCondition(df, key, vals, condition_i) ==
    IF vals = <<>> THEN condition_i
    ELSE LET eq == ColumnEquals(df, key, Head(vals))
         IN  ListCondition(df, key, Tail(vals),
                           [r \in 1..Len(df.rows) |-> condition_i[r] \/ eq[r]])

\* the condition of one item of the query with a None value compared like
\* any other value
ItemConditionNoneCompared(df, item) ==
    IF item.val.t = "list"
    THEN ListCondition(df, item.name, item.val.v, [r \in 1..Len(df.rows) |-> FALSE])
    ELSE ColumnEquals(df, item.name, item.val)

\* lines 215-221: the condition of one item of the query
ItemCondition(df, item) ==
    IF item.val.t = "list"
    THEN ListCondition(df, item.name, item.val.v, [r \in 1..Len(df.rows) |-> FALSE])
    ELSE IF item.val.t # "None"
    THEN ColumnEquals(df, item.name, item.val)
    ELSE [r \in 1..Len(df.rows) |-> TRUE]

\* whether evaluating the item reads the column df[key]
LooksUp(item) ==
    IF item.val.t = "list" THEN item.val.v # <<>> ELSE item.val.t # "None"

\* lines 213-221: the conditions of all items, and-ed
RECURSIVE QueryCondition(_, _, _)
QueryCondition(df, query, condition) ==
    IF query = <<>> THEN condition
    ELSE LET c == ItemCondition(df, Head(query))
         IN  QueryCondition(df, Tail(query),
                            [r \in 1..Len(df.rows) |-> condition[r] /\ c[r]])

\* the whole DataFrame for a query without items
EmptyQueryResultAll(df) == df

\* lines 211-212: pd.DataFrame(columns=self.df.columns)
EmptyQueryResult(df) == [cols |-> df.cols, rows |-> <<>>]

\* df.loc[condition]
Loc(df, condition) ==
    LET keep == {r \in 1..Len(df.rows) : condition[r]}
    IN  [cols |-> df.cols,
         rows |-> [i \in 1..Cardinality(keep) |->
                     df.rows[CHOOSE r \in keep :
                                Cardinality({q \in keep : q < r}) = i - 1]]]

\* FileContainer._get_subset(**query)
GetSubset(df, query) ==
    IF query = <<>> THEN [err |-> "", df |-> EmptyQueryResult(df)]
    ELSE IF \E i \in 1..Len(query) :
               LooksUp(query[i]) /\ ~HasColumn(df, query[i].name)
    THEN [err |-> "KeyError", df |-> df]
    ELSE [err |-> "",
          df |-> Loc(df, QueryCondition(df, query,
                                        [r \in 1..Len(df.rows) |-> TRUE]))]

\* the keys of __getitem__: a slice lo:hi, a list of positions, an int
Slice(lo, hi)  == [t |-> "slice", lo |-> lo, hi |-> hi, v |-> <<>>]
Positions(v)   == [t |-> "list",  lo |-> 0,  hi |-> 0,  v |-> v]
IntKey(i)      == [t |-> "int",   lo |-> i,  hi |-> i,  v |-> <<>>]
NoKey          == [t |-> "None",  lo |-> 0,  hi |-> 0,  v |-> <<>>]

\* df.iloc[key] for a slice lo:hi or a list of positions
ILoc(df, key) ==
    IF key.t = "slice"
    THEN [err |-> "",
          df |-> [cols |-> df.cols,
                  rows |-> SubSeq(df.rows, key.lo + 1,
                                  IF key.hi < Len(df.rows) THEN key.hi
                                  ELSE Len(df.rows))]]
    ELSE IF \E i \in 1..Len(key.v) : key.v[i] >= Len(df.rows)
    THEN [err |-> "IndexError", df |-> df]
    ELSE [err |-> "",
          df |-> [cols |-> df.cols,
                  rows |-> [i \in 1..Len(key.v) |-> df.rows[key.v[i] + 1]]]]

\* what an operation leaves in `last`
Did(op, self, query, key, err, ret) ==
    [op |-> op, src |-> self, query |-> query, key |-> key, err |-> err,
     ret |-> ret, item |-> <<>>, before |-> RowsOf(self)]

\* an operation that raised: nothing is returned, nothing changes
Raise(op, self, query, key, err) ==
    /\ last' = Did(op, self, query, key, err, "")
    /\ UNCHANGED <<handles, dfs>>

\* a copy of container `self` with `df` as its DataFrame is returned and
\* bound to "returned"
ReturnCopy(op, self, query, key, df) ==
    LET h == [handles EXCEPT !.returned = FreshId] IN
    /\ handles' = h
    /\ dfs' = Collect(h, [dfs EXCEPT ![FreshId] = df])
    /\ last' = Did(op, self, query, key, "", "returned")

\* the container `self` itself gets `df` as its DataFrame and is returned
ReturnSelf(op, self, query, key, df) ==
    LET h == [handles EXCEPT ![self] = FreshId, !.returned = FreshId] IN
    /\ handles' = h
    /\ dfs' = Collect(h, [dfs EXCEPT ![FreshId] = df])
    /\ last' = Did(op, self, query, key, "", "returned")

\* search that stores the subset in the container it was called on
SearchInPlace(self, query) ==
    LET subset == GetSubset(DfOf(self), query) IN
    IF subset.err # ""
    THEN Raise("search", self, query, NoKey, subset.err)
    ELSE ReturnSelf("search", self, query, NoKey, subset.df)

\* FileContainer.search(**query): ret = copy.copy(self);
\* ret.df = self._get_subset(**query); return ret
Search(self, query) ==
    LET subset == GetSubset(DfOf(self), query) IN
    IF subset.err # ""
    THEN Raise("search", self, query, NoKey, subset.err)
    ELSE ReturnCopy("search", self, query, NoKey, subset.df)

\* FileContainer.__getitem__(key) for a slice or a list of positions:
\* ret = copy.copy(self); ret.df = self.df.iloc[key]; return ret
GetItemRows(self, key) ==
    LET sel == ILoc(DfOf(self), key) IN
    IF sel.err # ""
    THEN Raise("getitem", self, <<>>, key, sel.err)
    ELSE ReturnCopy("getitem", self, <<>>, key, sel.df)

\* FileContainer.__getitem__(key) for an int: the (filename, fields) pair
\* of the row at that position
GetItemInt(self, key) ==
    /\ last' = [Did("getitem", self, <<>>, IntKey(key),
                     IF key < Len(RowsOf(self)) THEN "" ELSE "IndexError",
                     "item")
                 EXCEPT !.item = IF key < Len(RowsOf(self))
                                 THEN <<RowsOf(self)[key + 1][1],
                                        Tail(RowsOf(self)[key + 1])>>
                                 ELSE <<>>]
    /\ UNCHANGED <<handles, dfs>>

\* container.df = DataFrame(rows): the caller replaces the rows of a
\* container it holds (the assignment of FileContainer.__init__)
AssignDf(self, rows) ==
    LET h == [handles EXCEPT ![self] = FreshId] IN
    /\ handles' = h
    /\ dfs' = Collect(h, [dfs EXCEPT ![FreshId] = [cols |-> ColsOf(self), rows |-> rows]])
    /\ last' = Did("assign", self, <<>>, NoKey, "", self)

TableCols == <<"filename", "a", "b">>

\* the rows a search of "{a}/{b}" can find
TableRow(a, b) == <<Str(<<a, "/", b>>), Str(<<a>>), Str(<<b>>)>>

RowUniverse == {TableRow(a, b) : a \in {"x", "y"}, b \in {"x", "y"}}

\* tables as find returns them: at least one row, no row twice
InitTables ==
    {t \in UNION {[1..n -> RowUniverse] : n \in 1..MaxRows} :
        \A i, j \in 1..Len(t) : i # j => t[i] # t[j]}

TableQueryValues ==
    { None, Str(S("x")), List(<<>>), List(<<Str(S("y"))>>),
      List(<<Str(S("x")), Str(S("y"))>>) }

\* every query over the key columns, and two that name no column
TableQueries ==
    DictsOver(<<"a", "b">>, TableQueryValues, Len(TableCols) - 1)
    \cup { <<Item("c", Str(S("x")))>>, <<Item("a", Str(S("x"))), Item("c", None)>> }

RowKeys ==
    {Slice(lo, hi) : lo \in 0..1, hi \in 1..MaxRows}
    \cup {Positions(v) : v \in {<<0>>, <<1, 0>>}}

InitTable ==
    /\ FindIdle
    /\ NameIdle
    /\ handles = [source |-> 1, returned |-> 0]
    /\ \E t \in InitTables :
          dfs = [i \in DfIds |-> IF i = 1 THEN [cols |-> TableCols, rows |-> t]
                                 ELSE NullDf]
    /\ last = [op |-> "none"]

DoSearch ==
    /\ \E c \in Held, q \in TableQueries : Search(c, q)
    /\ UNCHANGED findVars
    /\ UNCHANGED nameVars

DoGetItemRows ==
    /\ \E c \in Held, key \in RowKeys : GetItemRows(c, key)
    /\ UNCHANGED findVars
    /\ UNCHANGED nameVars

DoGetItemInt ==
    /\ \E c \in Held, key \in 0..MaxRows : GetItemInt(c, key)
    /\ UNCHANGED findVars
    /\ UNCHANGED nameVars

DoAssignDf ==
    /\ \E c \in Held, rows \in {<<>>, <<TableRow("y", "y")>>} : AssignDf(c, rows)
    /\ UNCHANGED findVars
    /\ UNCHANGED nameVars

NextTable == DoSearch \/ DoGetItemRows \/ DoGetItemInt \/ DoAssignDf

SpecTable == InitTable /\ [][NextTable]_vars

-----------------------------------------------------------------------------
(* Properties of FileContainer                                             *)

\* a row satisfies one constraint: None is satisfied by every row, a list
\* by a row whose column equals one of its elements, any other value by a
\* row whose column equals it
Satisfies(cols, row, item) ==
    \/ item.val.t = "None"
    \/ /\ item.val.t = "list"
       /\ \E k \in 1..Len(item.val.v) :
             \E c \in 1..Len(cols) : cols[c] = item.name /\ row[c] = item.val.v[k]
    \/ /\ item.val.t \notin {"None", "list"}
       /\ \E c \in 1..Len(cols) : cols[c] = item.name /\ row[c] = item.val

\* the subsequence of the rows that satisfy every constraint
RECURSIVE Matching(_, _, _)
Matching(cols, rows, query) ==
    IF rows = <<>> THEN <<>>
    ELSE (IF \A i \in 1..Len(query) : Satisfies(cols, Head(rows), query[i])
          THEN <<Head(rows)>> ELSE <<>>)
         \o Matching(cols, Tail(rows), query)

\* C3: search with at least one constraint returns exactly the rows of the
\* source, in source order, that satisfy every constraint (a list: any of
\* its elements; a scalar: equality; None: ignored).
C3_SearchReturnsMatchingRows ==
    (last.op = "search" /\ last.query # <<>> /\ last.err = "")
    => /\ last.ret = "returned"
       /\ RowsOf("returned") = Matching(TableCols, last.before, last.query)
       /\ ColsOf("returned") = TableCols

\* a search with a list and a None constraint that kept the second of two
\* rows
C3_Witness ==
    /\ last.op = "search"
    /\ last.err = ""
    /\ Len(last.query) = 2
    /\ last.query[1].val.t = "list"
    /\ last.query[2].val.t = "None"
    /\ Len(last.before) = 2
    /\ Len(RowsOf("returned")) = 1
    /\ RowsOf("returned")[1] = last.before[2]

\* C4: search without constraints returns a table of zero rows with the
\* columns of the source, never the full table.
C4_EmptySearchReturnsNoRows ==
    (last.op = "search" /\ last.query = <<>>)
    => /\ last.err = ""
       /\ last.ret = "returned"
       /\ RowsOf("returned") = <<>>
       /\ ColsOf("returned") = TableCols
       /\ last.before # <<>> => RowsOf("returned") # last.before

\* a search without constraints on a table of MaxRows rows
C4_Witness ==
    /\ last.op = "search"
    /\ last.query = <<>>
    /\ last.src = "source"
    /\ Len(last.before) = MaxRows
    /\ RowsOf("source") = last.before
    /\ RowsOf("returned") = <<>>

\* C6: a search or a slice / list access leaves the rows of the container
\* it is called on and of the source as they were, and returns a container
\* whose DataFrame is a new object that the source does not refer to;
\* replacing the rows of one container leaves the rows of the other as
\* they were.
C6_CopyOnQuery ==
    [][ /\ (last'.op \in {"search", "getitem"} /\ last'.ret = "returned") =>
              /\ RowsOf("source")' = RowsOf("source")
              /\ last'.src = "source" => RowsOf("source")' = last'.before
              /\ handles'.returned # handles'.source
              /\ handles'.returned \notin {handles[c] : c \in Held}
        /\ (last'.op \in {"search", "getitem"} /\ last'.ret # "returned") =>
              \A c \in Held : handles'[c] = handles[c] /\ RowsOf(c)' = RowsOf(c)
        /\ last'.op = "assign" =>
              \A c \in Held : c # last'.src => RowsOf(c)' = RowsOf(c)
      ]_vars

\* the rows of a returned container were replaced, and the source still has
\* the rows it had
C6_Witness ==
    /\ last.op = "assign"
    /\ last.src = "returned"
    /\ Len(RowsOf("source")) = MaxRows
    /\ Len(last.before) = 1
    /\ RowsOf("returned") = <<>>
    /\ handles.returned # handles.source

-----------------------------------------------------------------------------
(* Name construction and parsing: create_name followed by the parser.      *)

MaxValLen == 2

NameChars == {"x", "X", "_", "y"}

NamePatterns ==
    { <<FA>>,
      <<FA, Lit("_"), FB>>,
      <<FA, FB>>,
      <<Lit("x"), FA>>,
      <<FA, Lit("x"), FB>>,
      <<FA, Lit("_"), Lit("x")>>,
      <<Lit("x"), Lit("_"), FA, Lit("_"), FB>> }

NameValues ==
    {Str(s) : s \in StringsOver(NameChars, 0, MaxValLen)}
        \cup {Num(<<"1">>), List(<<Str(<<"x">>)>>), Dict(<<>>)}

\* every assignment of a value to each field of the pattern, as a dict
Assignments(pattern) ==
    LET order == FieldOrder(pattern)
    IN  {[i \in 1..Len(order) |-> Item(order[i], f[i])] :
            f \in [1..Len(order) -> NameValues]}

InitName ==
    /\ FindIdle
    /\ TableIdle
    /\ \E p \in NamePatterns :
          /\ nfinder = FinderBase(p, <<>>)
          /\ nkeys \in Assignments(p)
    /\ nname = [err |-> "", s |-> <<>>]
    /\ nparsed = NoParse
    /\ npc = "start"

\* name = finder.create_name(**keys)
DoCreateName ==
    /\ npc = "start"
    /\ nname' = CreateName(nfinder, None, nkeys)
    /\ npc' = "named"
    /\ UNCHANGED <<nfinder, nkeys, nparsed>>
    /\ UNCHANGED findVars
    /\ UNCHANGED tableVars

\* parsed = finder.parser.parse(name)
DoParseName ==
    /\ npc = "named"
    /\ nname.err = ""
    /\ nparsed' = ParserParse(nfinder.pattern, nname.s)
    /\ npc' = "parsed"
    /\ UNCHANGED <<nfinder, nkeys, nname>>
    /\ UNCHANGED findVars
    /\ UNCHANGED tableVars

NextName == DoCreateName \/ DoParseName

SpecName == InitName /\ [][NextName]_vars

\* the literal characters of a pattern, lower-cased
LiteralChars(pattern) ==
    {Lower(pattern[i].c) : i \in {j \in 1..Len(pattern) : pattern[j].k = "lit"}}

\* no two fields of the pattern are next to each other
FieldsSeparated(pattern) ==
    \A i \in 1..(Len(pattern) - 1) :
        ~(pattern[i].k = "fld" /\ pattern[i + 1].k = "fld")

\* every value is a non-empty str none of whose characters is, ignoring
\* case, a literal character of the pattern
ValuesUnambiguous(pattern, keys) ==
    \A i \in 1..Len(keys) :
        /\ keys[i].val.t = "str"
        /\ keys[i].val.s # <<>>
        /\ \A j \in 1..Len(keys[i].val.s) :
              Lower(keys[i].val.s[j]) \notin LiteralChars(pattern)

\* C7 (as claimed): parsing the name built from a pattern and a field
\* assignment always recovers exactly that assignment.
C7_RoundTripAlways ==
    npc = "parsed" => (nparsed.ok /\ nparsed.named = nkeys)

\* C7 (amended): when the fields of the pattern are separated by literal
\* text and every value is a non-empty str sharing no character (ignoring
\* case) with the literal text, the name is built without error and
\* parsing it recovers exactly the assignment.
C7_RoundTripUnambiguous ==
    (FieldsSeparated(nfinder.pattern) /\ ValuesUnambiguous(nfinder.pattern, nkeys))
    => /\ npc # "start" => nname.err = ""
       /\ npc = "parsed" => (nparsed.ok /\ nparsed.named = nkeys)

\* a two-field pattern with literal text, parsed back to the assignment
C7_Witness ==
    /\ npc = "parsed"
    /\ Len(nkeys) = 2
    /\ LiteralChars(nfinder.pattern) # {}
    /\ FieldsSeparated(nfinder.pattern)
    /\ ValuesUnambiguous(nfinder.pattern, nkeys)
    /\ \E i \in 1..2 : Len(nkeys[i].val.s) = MaxValLen
    /\ nparsed.ok
    /\ nparsed.named = nkeys

=============================================================================
